---- MODULE Spec2Model ----
(***************************************************************************)
(* Model of the ADF4382 IIO driver, src/linux/adf4382.c.                   *)
(*                                                                         *)
(* One lifecycle process (the driver core running adf4382_probe and, later,*)
(* the release of the device-managed resources) and NThreads caller        *)
(* contexts.  A caller context that is idle may enter any of the driver's  *)
(* entry points that is reachable at that moment:                          *)
(*   adf4382_write / adf4382_read   while the IIO device is registered,    *)
(*   adf4382_reg_access             while the IIO device is registered,    *)
(*   adf4382_freq_change            while the notifier block is registered.*)
(* Every handler is split at the points where another context can          *)
(* interleave: lock acquisition, the call it protects, lock release, and   *)
(* the return.                                                             *)
(*                                                                         *)
(* The kernel services the driver calls are modelled by what they do:      *)
(* mutex_lock blocks until the mutex is free; the clock framework runs     *)
(* notifier callbacks, clk_notifier_register/unregister and                *)
(* clk_prepare_enable/clk_disable_unprepare under its prepare lock;        *)
(* devm_add_action_or_reset either records the action or runs it at once;  *)
(* device-managed resources are released last-in first-out; unregistering  *)
(* the IIO device waits for attribute and debugfs handlers in flight.      *)
(* Results of calls into other subsystems (allocation, clock, regmap, IIO  *)
(* core) are inputs of the model: each may succeed or fail.  The source    *)
(* never assigns st->clkin; the clock handle is taken as the clock the     *)
(* framework calls act on.                                                 *)
(***************************************************************************)
EXTENDS Integers, Sequences, FiniteSets, TLC

VARIABLES
    ppc,            \* position of the lifecycle process
    pret,           \* value adf4382_probe returned (0 while none)
    devres,         \* stack of device-managed release actions, top is last
    plog,           \* lifecycle events in the order they took effect
    st_alive,       \* struct adf4382_state allocated, st->lock initialised
    clk_enabled,    \* reference clock prepared and enabled by this driver
    nb_registered,  \* st->nb is on the clock's notifier chain
    published,      \* IIO device registered: attributes and debugfs visible
    prepare_lock,   \* clock framework prepare lock: owner, or Free
    lock,           \* st->lock: owner, or Free
    regs,           \* device register contents behind the regmap
    pc,             \* per context: position inside the handler it runs
    call,           \* per context: the arguments it was entered with
    ret,            \* per context: the handler's local ret / return value
    val,            \* per context: adf4382_read's local val (u64)
    out,            \* per context: text emitted into the sysfs buffer
    hist            \* per context: what this call has done so far

vars == << ppc, pret, devres, plog, st_alive, clk_enabled, nb_registered,
           published, prepare_lock, lock, regs, pc, call, ret, val, out, hist >>

lifecycle_vars == << ppc, pret, devres, plog, st_alive, clk_enabled,
                     nb_registered, published >>

(***************************************************************************)
(* Bounds and program constants                                            *)
(***************************************************************************)
NThreads == 2

Threads == 1..NThreads

Free == 0

ADF4382_FREQ == 0

UnknownIdent == 1

MaxRegister == 84

PRE_RATE_CHANGE == 1

POST_RATE_CHANGE == 2

ABORT_RATE_CHANGE == 4

NOTIFY_OK == 1

NOTIFY_STOP_MASK == 32768

EIO == 5

ENOMEM == 12

EINVAL == 22

ERANGE == 34

(***************************************************************************)
(* u64 arithmetic.  A u64 is four 16-bit limbs, least significant first,   *)
(* so that the parse of kstrtoull overflows exactly where 64 bits do.      *)
(***************************************************************************)
Limb == 65536

U64Zero == << 0, 0, 0, 0 >>

\* x * m + a in 64 bits: the wrapped value and the carry out of bit 63.
U64MulAdd(x, m, a) ==
    LET l1 == x[1] * m + a
        l2 == x[2] * m + (l1 \div Limb)
        l3 == x[3] * m + (l2 \div Limb)
        l4 == x[4] * m + (l3 \div Limb)
    IN  [ v     |-> << l1 % Limb, l2 % Limb, l3 % Limb, l4 % Limb >>,
          carry |-> l4 \div Limb ]

\* x divided by the small number d: quotient and remainder.
U64DivMod(x, d) ==
    LET t4 == x[4]
        t3 == (t4 % d) * Limb + x[3]
        t2 == (t3 % d) * Limb + x[2]
        t1 == (t2 % d) * Limb + x[1]
    IN  [ q |-> << t1 \div d, t2 \div d, t3 \div d, t4 \div d >>,
          r |-> t1 % d ]

(***************************************************************************)
(* Text.  A text is a sequence of one-character strings; the C string's    *)
(* terminating NUL is the end of the sequence.                             *)
(***************************************************************************)
DigitChars == << "0", "1", "2", "3", "4", "5", "6", "7", "8", "9" >>

IsDigit(c) == \E i \in 1..10 : DigitChars[i] = c

DigitVal(c) == (CHOOSE i \in 1..10 : DigitChars[i] = c) - 1

\* The value _parse_integer gives a character, or 16 for "stop here": a
\* hexadecimal letter has a value >= 10, which is not below the base.
CharVal(c, base) ==
    IF IsDigit(c) /\ DigitVal(c) < base THEN DigitVal(c) ELSE 16

\* _parse_integer(s, base, &res) from position i: consumes digits, keeps the
\* wrapped result, counts the characters and remembers an overflow.
RECURSIVE parse_integer(_, _, _, _, _, _)
parse_integer(s, i, base, res, rv, ovf) ==
    IF i > Len(s) \/ CharVal(s[i], base) >= base
    THEN [ res |-> res, rv |-> rv, ovf |-> ovf ]
    ELSE LET m == U64MulAdd(res, base, CharVal(s[i], base))
         IN  parse_integer(s, i + 1, base, m.v, rv + 1, ovf \/ m.carry # 0)

\* kstrtoull(s, 10, &res): an optional '+', at least one digit, an optional
\* single trailing newline, nothing else; -ERANGE when the value does not
\* fit 64 bits, -EINVAL for any other malformed text.
kstrtoull(s, base) ==
    LET start == IF Len(s) >= 1 /\ s[1] = "+" THEN 2 ELSE 1
        p     == parse_integer(s, start, base, U64Zero, 0, FALSE)
        after == start + p.rv
        endp  == IF after <= Len(s) /\ s[after] = "\n" THEN after + 1 ELSE after
    IN  IF p.ovf THEN [ ret |-> -ERANGE, res |-> U64Zero ]
        ELSE IF p.rv = 0 THEN [ ret |-> -EINVAL, res |-> U64Zero ]
        ELSE IF endp <= Len(s) THEN [ ret |-> -EINVAL, res |-> U64Zero ]
        ELSE [ ret |-> 0, res |-> p.res ]

\* "%llu": the decimal digits of v, most significant first.
RECURSIVE FormatU64(_)
FormatU64(v) ==
    LET d == U64DivMod(v, 10)
    IN  IF d.q = U64Zero THEN << DigitChars[d.r + 1] >>
        ELSE Append(FormatU64(d.q), DigitChars[d.r + 1])

\* sysfs_emit(buf, "%llu\n", val): the text written and its length.
sysfs_emit(v) == Append(FormatU64(v), "\n")

\* notifier_from_errno(err)
notifier_from_errno(err) ==
    IF err # 0 THEN NOTIFY_STOP_MASK + (NOTIFY_OK - err) ELSE NOTIFY_OK

(***************************************************************************)
(* The device-programming routines.  In this source all three are stubs:   *)
(* they return 0 and issue no register transaction; adf4382_get_freq       *)
(* leaves *freq as the caller initialised it.                              *)
(***************************************************************************)
adf4382_set_freq(freq) == 0

adf4382_get_freq(v) == [ ret |-> 0, val |-> v ]

adf4382_init == 0

(***************************************************************************)
(* Inputs                                                                  *)
(***************************************************************************)
\* Texts written to the "frequency" attribute.
Bufs ==
    { << >>,
      << "a", "b", "c" >>,
      << "+", "7" >>,
      << "4", "2", "\n", "\n" >>,
      << "1", "0", "0", "0", "0", "0", "0", "0", "0", "0", "\n" >>,
      << "1", "8", "4", "4", "6", "7", "4", "4", "0", "7",
         "3", "7", "0", "9", "5", "5", "1", "6", "1", "5" >>,
      << "1", "8", "4", "4", "6", "7", "4", "4", "0", "7",
         "3", "7", "0", "9", "5", "5", "1", "6", "1", "6" >> }

\* kstrtoull(buf, 10, &freq) of every text of Bufs, computed once.
kstrtoull_dec == [ b \in Bufs |-> kstrtoull(b, 10) ]

\* What adf4382_write is entered with: every text under the identifier of
\* the "frequency" entry of adf4382_ext_info, and one text under an
\* identifier that no entry carries.
WriteInputs ==
    { << ADF4382_FREQ, b >> : b \in Bufs } \cup { << UnknownIdent, << "+", "7" >> >> }

\* What adf4382_read is entered with.
Idents == { ADF4382_FREQ, UnknownIdent }

\* Actions the clock framework notifies.
NotifyActions == { PRE_RATE_CHANGE, POST_RATE_CHANGE, ABORT_RATE_CHANGE }

\* Register addresses of a debugfs access: the last valid one, the first
\* invalid one.
RegInputs == { MaxRegister, MaxRegister + 1 }

\* Register addresses the device holds a value for.
RegAddrs == { MaxRegister }

RegVals == { 165 }

NoCall ==
    [ op |-> "none", private |-> 0, buf |-> << >>, action |-> 0,
      reg |-> 0, write_val |-> 0, read_val |-> FALSE ]

\* What a call has done so far.  after: for a read, the text of the write
\* that had returned successfully when the read was entered, as long as no
\* set-frequency or re-initialization has run since (empty: none).
NoHist ==
    [ locked |-> FALSE, called |-> "none", tx |-> "none", ntx |-> 0,
      after |-> << >> ]

(***************************************************************************)
(* Initial state: the device is not bound, nothing is allocated.           *)
(***************************************************************************)
Init ==
    /\ ppc = "p_alloc"
    /\ pret = 0
    /\ devres = << >>
    /\ plog = << >>
    /\ st_alive = FALSE
    /\ clk_enabled = FALSE
    /\ nb_registered = FALSE
    /\ published = FALSE
    /\ prepare_lock = Free
    /\ lock = Free
    /\ regs = [ a \in RegAddrs |-> 0 ]
    /\ pc = [ t \in Threads |-> "idle" ]
    /\ call = [ t \in Threads |-> NoCall ]
    /\ ret = [ t \in Threads |-> 0 ]
    /\ val = [ t \in Threads |-> U64Zero ]
    /\ out = [ t \in Threads |-> << >> ]
    /\ hist = [ t \in Threads |-> NoHist ]

thread_vars == << pc, call, ret, val, out, hist >>

(***************************************************************************)
(* Kernel primitives                                                       *)
(***************************************************************************)
\* mutex_lock(&st->lock) by context t: blocks while the mutex is owned.
mutex_lock(t) == lock = Free /\ lock' = t

\* mutex_unlock(&st->lock)
mutex_unlock(t) == lock' = Free

\* regmap's bound check: max_register = 0x54.
regmap_valid(reg) == reg <= MaxRegister

\* A handler of the attribute or debugfs interface is in flight.
InFlightIio == \E t \in Threads : call[t].op \in { "write", "read", "reg_access" }

(***************************************************************************)
(* Lifecycle: adf4382_probe, one action per call it makes.  A failing call *)
(* makes probe return its error; the driver core then releases what was    *)
(* recorded as device-managed, last recorded first.                        *)
(***************************************************************************)
ProbeFail(err) == pret' = err /\ ppc' = "p_unwind"

\* clk_disable_unprepare(data): the clock's state after the release action.
adf4382_clk_disable(enabled) == FALSE

\* a release action that leaves the notifier block on the chain
adf4382_clk_notifier_unreg_noop(registered) == registered

\* clk_notifier_unregister(st->clkin, &st->nb): the subscription afterwards.
adf4382_clk_notifier_unreg(registered) == FALSE

\* devm_iio_device_alloc
ProbeAlloc ==
    /\ ppc = "p_alloc"
    /\ \/ /\ st_alive' = TRUE
          /\ devres' = Append(devres, "iio_dev")
          /\ plog' = Append(plog, "alloc")
          /\ ppc' = "p_regmap"
          /\ UNCHANGED pret
       \/ /\ ProbeFail(-ENOMEM)
          /\ UNCHANGED << st_alive, devres, plog >>
    /\ UNCHANGED << clk_enabled, nb_registered, published, prepare_lock, lock,
                    regs, thread_vars >>

\* devm_regmap_init_spi
ProbeRegmap ==
    /\ ppc = "p_regmap"
    /\ \/ /\ devres' = Append(devres, "regmap")
          /\ plog' = Append(plog, "regmap_init")
          /\ ppc' = "p_setup"
          /\ UNCHANGED pret
       \/ /\ ProbeFail(-ENOMEM)
          /\ UNCHANGED << devres, plog >>
    /\ UNCHANGED << st_alive, clk_enabled, nb_registered, published,
                    prepare_lock, lock, regs, thread_vars >>

\* st = iio_priv(indio_dev); fill indio_dev and st; mutex_init(&st->lock)
ProbeSetup ==
    /\ ppc = "p_setup"
    /\ lock' = Free
    /\ plog' = Append(plog, "mutex_init")
    /\ ppc' = "p_clk"
    /\ UNCHANGED << pret, devres, st_alive, clk_enabled, nb_registered,
                    published, prepare_lock, regs, thread_vars >>

\* clk_prepare_enable(st->clkin)
ProbeClkEnable ==
    /\ ppc = "p_clk"
    /\ prepare_lock = Free
    /\ \/ /\ clk_enabled' = TRUE
          /\ plog' = Append(plog, "clk_enable")
          /\ ppc' = "p_devm_clk"
          /\ UNCHANGED pret
       \/ /\ ProbeFail(-EIO)
          /\ UNCHANGED << clk_enabled, plog >>
    /\ UNCHANGED << devres, st_alive, nb_registered, published, prepare_lock,
                    lock, regs, thread_vars >>

\* an error path that disables the clock again after
\* devm_add_action_or_reset has already run the action
ProbeDevmClk_double ==
    /\ ppc = "p_devm_clk"
    /\ \/ /\ devres' = Append(devres, "clk_disable")
          /\ ppc' = "p_nb"
          /\ UNCHANGED << pret, clk_enabled, plog >>
       \/ /\ prepare_lock = Free
          /\ clk_enabled' = FALSE
          /\ plog' = plog \o << "clk_disable", "clk_disable" >>
          /\ ProbeFail(-ENOMEM)
          /\ UNCHANGED devres
    /\ UNCHANGED << st_alive, nb_registered, published, prepare_lock, lock,
                    regs, thread_vars >>

\* devm_add_action_or_reset(&spi->dev, adf4382_clk_disable, st->clkin)
ProbeDevmClk ==
    /\ ppc = "p_devm_clk"
    /\ \/ /\ devres' = Append(devres, "clk_disable")
          /\ ppc' = "p_nb"
          /\ UNCHANGED << pret, clk_enabled, plog >>
       \/ /\ prepare_lock = Free
          /\ clk_enabled' = adf4382_clk_disable(clk_enabled)
          /\ plog' = Append(plog, "clk_disable")
          /\ ProbeFail(-ENOMEM)
          /\ UNCHANGED devres
    /\ UNCHANGED << st_alive, nb_registered, published, prepare_lock, lock,
                    regs, thread_vars >>

\* st->nb.notifier_call = adf4382_freq_change;
\* clk_notifier_register(st->clkin, &st->nb)
ProbeNotifierRegister ==
    /\ ppc = "p_nb"
    /\ prepare_lock = Free
    /\ \/ /\ nb_registered' = TRUE
          /\ plog' = Append(plog, "nb_register")
          /\ ppc' = "p_devm_nb"
          /\ UNCHANGED pret
       \/ /\ ProbeFail(-EINVAL)
          /\ UNCHANGED << nb_registered, plog >>
    /\ UNCHANGED << devres, st_alive, clk_enabled, published, prepare_lock,
                    lock, regs, thread_vars >>

\* devm_add_action in place of devm_add_action_or_reset: a failure to
\* record the action leaves the notifier registered
ProbeDevmNotifier_noreset ==
    /\ ppc = "p_devm_nb"
    /\ \/ /\ devres' = Append(devres, "nb_unreg")
          /\ ppc' = "p_init"
          /\ UNCHANGED pret
       \/ /\ ProbeFail(-ENOMEM)
          /\ UNCHANGED devres
    /\ UNCHANGED << plog, st_alive, clk_enabled, nb_registered, published,
                    prepare_lock, lock, regs, thread_vars >>

\* probe going on without recording the unregister action
ProbeDevmNotifier_unrecorded ==
    /\ ppc = "p_devm_nb"
    /\ ppc' = "p_init"
    /\ UNCHANGED << pret, devres, plog, st_alive, clk_enabled, nb_registered,
                    published, prepare_lock, lock, regs, thread_vars >>

\* devm_add_action_or_reset(&spi->dev, adf4382_clk_notifier_unreg, st)
ProbeDevmNotifier ==
    /\ ppc = "p_devm_nb"
    /\ \/ /\ devres' = Append(devres, "nb_unreg")
          /\ ppc' = "p_init"
          /\ UNCHANGED << pret, nb_registered, plog >>
       \/ /\ prepare_lock = Free
          /\ nb_registered' = adf4382_clk_notifier_unreg(nb_registered)
          /\ plog' = Append(plog, "nb_unregister")
          /\ ProbeFail(-ENOMEM)
          /\ UNCHANGED devres
    /\ UNCHANGED << st_alive, clk_enabled, published, prepare_lock, lock,
                    regs, thread_vars >>

\* ret = adf4382_init(st); if (ret) return ret;   -- st->lock is not taken
ProbeInit ==
    /\ ppc = "p_init"
    /\ IF adf4382_init # 0
       THEN ProbeFail(adf4382_init) /\ UNCHANGED plog
       ELSE /\ plog' = Append(plog, "init")
            /\ ppc' = "p_register"
            /\ UNCHANGED pret
    /\ UNCHANGED << devres, st_alive, clk_enabled, nb_registered, published,
                    prepare_lock, lock, regs, thread_vars >>

\* iio_device_register in place of the device-managed variant: nothing
\* unregisters the IIO device when the device is released
ProbeIioRegister_unmanaged ==
    /\ ppc = "p_register"
    /\ \/ /\ published' = TRUE
          /\ plog' = Append(plog, "iio_register")
          /\ ppc' = "bound"
          /\ UNCHANGED << pret, devres >>
       \/ /\ ProbeFail(-EINVAL)
          /\ UNCHANGED << published, devres, plog >>
    /\ UNCHANGED << st_alive, clk_enabled, nb_registered, prepare_lock, lock,
                    regs, thread_vars >>

\* return devm_iio_device_register(&spi->dev, indio_dev)
ProbeIioRegister ==
    /\ ppc = "p_register"
    /\ \/ /\ published' = TRUE
          /\ devres' = Append(devres, "iio_register")
          /\ plog' = Append(plog, "iio_register")
          /\ ppc' = "bound"
          /\ UNCHANGED pret
       \/ /\ ProbeFail(-EINVAL)
          /\ UNCHANGED << published, devres, plog >>
    /\ UNCHANGED << st_alive, clk_enabled, nb_registered, prepare_lock, lock,
                    regs, thread_vars >>

\* Device-managed resources are released after a failed probe, and when
\* the bound device is unbound (the driver has no remove callback): from
\* then on the lifecycle process is removing the device.
Releasing == ppc \in { "p_unwind", "bound", "removing" }

Unbinding(p) == IF p = "bound" THEN "removing" ELSE p

Top == devres[Len(devres)]

Pop == SubSeq(devres, 1, Len(devres) - 1)

\* iio_device_unregister: waits for the handlers in flight.
ReleaseIioRegister ==
    /\ Releasing /\ devres # << >> /\ Top = "iio_register"
    /\ ~InFlightIio
    /\ published' = FALSE
    /\ devres' = Pop
    /\ plog' = Append(plog, "iio_unregister")
    /\ ppc' = Unbinding(ppc)
    /\ UNCHANGED << pret, st_alive, clk_enabled, nb_registered,
                    prepare_lock, lock, regs, thread_vars >>

\* adf4382_clk_notifier_unreg(st), under the clock framework's prepare lock.
ReleaseNotifier ==
    /\ Releasing /\ devres # << >> /\ Top = "nb_unreg"
    /\ prepare_lock = Free
    /\ nb_registered' = adf4382_clk_notifier_unreg(nb_registered)
    /\ devres' = Pop
    /\ plog' = Append(plog, "nb_unregister")
    /\ ppc' = Unbinding(ppc)
    /\ UNCHANGED << pret, st_alive, clk_enabled, published, prepare_lock,
                    lock, regs, thread_vars >>

\* adf4382_clk_disable(st->clkin)
ReleaseClk ==
    /\ Releasing /\ devres # << >> /\ Top = "clk_disable"
    /\ prepare_lock = Free
    /\ clk_enabled' = adf4382_clk_disable(clk_enabled)
    /\ devres' = Pop
    /\ plog' = Append(plog, "clk_disable")
    /\ ppc' = Unbinding(ppc)
    /\ UNCHANGED << pret, st_alive, nb_registered, published,
                    prepare_lock, lock, regs, thread_vars >>

\* the regmap is freed
ReleaseRegmap ==
    /\ Releasing /\ devres # << >> /\ Top = "regmap"
    /\ devres' = Pop
    /\ plog' = Append(plog, "regmap_exit")
    /\ ppc' = Unbinding(ppc)
    /\ UNCHANGED << pret, st_alive, clk_enabled, nb_registered, published,
                    prepare_lock, lock, regs, thread_vars >>

\* the iio_dev, and struct adf4382_state inside it, is freed
ReleaseIioDev ==
    /\ Releasing /\ devres # << >> /\ Top = "iio_dev"
    /\ st_alive' = FALSE
    /\ devres' = Pop
    /\ plog' = Append(plog, "free")
    /\ ppc' = Unbinding(ppc)
    /\ UNCHANGED << pret, clk_enabled, nb_registered, published,
                    prepare_lock, lock, regs, thread_vars >>

\* nothing is left to release
ReleaseDone ==
    /\ ppc \in { "p_unwind", "removing" } /\ devres = << >>
    /\ ppc' = IF ppc = "p_unwind" THEN "failed" ELSE "detached"
    /\ UNCHANGED << pret, devres, plog, st_alive, clk_enabled, nb_registered,
                    published, prepare_lock, lock, regs, thread_vars >>

(***************************************************************************)
(* Caller contexts                                                         *)
(***************************************************************************)
EnterWith(t, c, first, h) ==
    /\ pc[t] = "idle"
    /\ call' = [ call EXCEPT ![t] = c ]
    /\ pc' = [ pc EXCEPT ![t] = first ]
    /\ ret' = [ ret EXCEPT ![t] = 0 ]
    /\ val' = [ val EXCEPT ![t] = U64Zero ]
    /\ out' = [ out EXCEPT ![t] = << >> ]
    /\ hist' = [ hist EXCEPT ![t] = h ]

Enter(t, c, first) == EnterWith(t, c, first, NoHist)

\* Context t runs a device-programming routine: it notes which one, and
\* every read entered before it no longer follows the last write directly.
Programs(t, what) ==
    hist' = [ u \in Threads |->
                IF u = t THEN [ hist[t] EXCEPT !.called = what ]
                ELSE [ hist[u] EXCEPT !.after = << >> ] ]

\* The text of the one attribute write that has returned successfully and
\* not been followed by anything yet, seen by a context other than its
\* writer; empty when there is none or a write or notification is running.
LastWrite(t) ==
    LET W == { w \in Threads \ { t } :
                 /\ call[w].op = "write" /\ call[w].private = ADF4382_FREQ
                 /\ pc[w] = "done" /\ ret[w] > 0 }
        busy == \E w \in Threads \ (W \cup { t }) :
                   call[w].op \in { "write", "notify" }
    IN  IF Cardinality(W) = 1 /\ ~busy
        THEN call[CHOOSE w \in W : TRUE].buf
        ELSE << >>

Goto(t, next) == pc' = [ pc EXCEPT ![t] = next ]

\* ---- adf4382_write ------------------------------------------------------

\* user space writes the attribute: iio core calls adf4382_write
CallWrite(t) ==
    /\ published
    /\ \E in \in WriteInputs :
          Enter(t, [ NoCall EXCEPT !.op = "write", !.private = in[1],
                                   !.buf = in[2] ],
                "w_lock")
    /\ UNCHANGED << lifecycle_vars, prepare_lock, lock, regs >>

\* adf4382_write entering its switch without taking st->lock
WriteLock_unlocked(t) ==
    /\ pc[t] = "w_lock"
    /\ Goto(t, "w_switch")
    /\ UNCHANGED << lifecycle_vars, prepare_lock, lock, regs, call, ret, val,
                    out, hist >>

\* mutex_lock(&st->lock)
WriteLock(t) ==
    /\ pc[t] = "w_lock"
    /\ mutex_lock(t)
    /\ hist' = [ hist EXCEPT ![t].locked = TRUE ]
    /\ Goto(t, "w_switch")
    /\ UNCHANGED << lifecycle_vars, prepare_lock, regs, call, ret, val, out >>

\* adf4382_write with "return ret;" in place of "break;" after a failed
\* kstrtoull: the function is left with st->lock still taken
WriteSwitch_early_return(t) ==
    /\ pc[t] = "w_switch"
    /\ IF call[t].private = ADF4382_FREQ
       THEN LET k == kstrtoull_dec[call[t].buf]
            IN  IF k.ret # 0
                THEN /\ ret' = [ ret EXCEPT ![t] = k.ret ]
                     /\ Goto(t, "done")
                     /\ UNCHANGED val
                ELSE /\ val' = [ val EXCEPT ![t] = k.res ]
                     /\ Goto(t, "w_set")
                     /\ UNCHANGED ret
       ELSE /\ ret' = [ ret EXCEPT ![t] = -EINVAL ]
            /\ Goto(t, "w_unlock")
            /\ UNCHANGED val
    /\ UNCHANGED << lifecycle_vars, prepare_lock, lock, regs, call, out, hist >>

\* adf4382_write without the "if (ret) break;" after kstrtoull
WriteSwitch_unchecked(t) ==
    /\ pc[t] = "w_switch"
    /\ IF call[t].private = ADF4382_FREQ
       THEN /\ val' = [ val EXCEPT ![t] = kstrtoull_dec[call[t].buf].res ]
            /\ Goto(t, "w_set")
            /\ UNCHANGED ret
       ELSE /\ ret' = [ ret EXCEPT ![t] = -EINVAL ]
            /\ Goto(t, "w_unlock")
            /\ UNCHANGED val
    /\ UNCHANGED << lifecycle_vars, prepare_lock, lock, regs, call, out, hist >>

\* switch ((u32)private): case ADF4382_FREQ parses the text, a parse error
\* breaks out of the switch; default sets -EINVAL.  val[t] is the local freq.
WriteSwitch(t) ==
    /\ pc[t] = "w_switch"
    /\ IF call[t].private = ADF4382_FREQ
       THEN LET k == kstrtoull_dec[call[t].buf]
            IN  IF k.ret # 0
                THEN /\ ret' = [ ret EXCEPT ![t] = k.ret ]
                     /\ Goto(t, "w_unlock")
                     /\ UNCHANGED val
                ELSE /\ val' = [ val EXCEPT ![t] = k.res ]
                     /\ Goto(t, "w_set")
                     /\ UNCHANGED ret
       ELSE /\ ret' = [ ret EXCEPT ![t] = -EINVAL ]
            /\ Goto(t, "w_unlock")
            /\ UNCHANGED val
    /\ UNCHANGED << lifecycle_vars, prepare_lock, lock, regs, call, out, hist >>

\* ret = adf4382_set_freq(st, freq)
WriteSetFreq(t) ==
    /\ pc[t] = "w_set"
    /\ ret' = [ ret EXCEPT ![t] = adf4382_set_freq(val[t]) ]
    /\ Programs(t, "set_freq")
    /\ Goto(t, "w_unlock")
    /\ UNCHANGED << lifecycle_vars, prepare_lock, lock, regs, call, val, out >>

\* mutex_unlock(&st->lock); return ret ? ret : len
WriteUnlock(t) ==
    /\ pc[t] = "w_unlock"
    /\ mutex_unlock(t)
    /\ ret' = [ ret EXCEPT ![t] = IF ret[t] # 0 THEN ret[t]
                                  ELSE Len(call[t].buf) ]
    /\ Goto(t, "done")
    /\ UNCHANGED << lifecycle_vars, prepare_lock, regs, call, val, out, hist >>

\* ---- adf4382_read -------------------------------------------------------

\* user space reads the attribute: iio core calls adf4382_read; u64 val = 0
CallRead(t) ==
    /\ published
    /\ \E p \in Idents :
          EnterWith(t, [ NoCall EXCEPT !.op = "read", !.private = p ],
                    "r_switch",
                    [ NoHist EXCEPT !.after = IF p = ADF4382_FREQ
                                              THEN LastWrite(t) ELSE << >> ])
    /\ UNCHANGED << lifecycle_vars, prepare_lock, lock, regs >>

\* switch ((u32)private)
ReadSwitch(t) ==
    /\ pc[t] = "r_switch"
    /\ IF call[t].private = ADF4382_FREQ
       THEN Goto(t, "r_get") /\ UNCHANGED << ret, val >>
       ELSE /\ ret' = [ ret EXCEPT ![t] = -EINVAL ]
            /\ val' = [ val EXCEPT ![t] = U64Zero ]
            /\ Goto(t, "r_ret")
    /\ UNCHANGED << lifecycle_vars, prepare_lock, lock, regs, call, out, hist >>

\* ret = adf4382_get_freq(st, &val)   -- st->lock is not taken
ReadGetFreq(t) ==
    /\ pc[t] = "r_get"
    /\ LET g == adf4382_get_freq(val[t])
       IN  /\ ret' = [ ret EXCEPT ![t] = g.ret ]
           /\ val' = [ val EXCEPT ![t] = g.val ]
    /\ hist' = [ hist EXCEPT ![t].called = "get_freq" ]
    /\ Goto(t, "r_ret")
    /\ UNCHANGED << lifecycle_vars, prepare_lock, lock, regs, call, out >>

\* adf4382_read emitting val whatever ret is
ReadReturn_always_emits(t) ==
    /\ pc[t] = "r_ret"
    /\ out' = [ out EXCEPT ![t] = sysfs_emit(val[t]) ]
    /\ ret' = [ ret EXCEPT ![t] = Len(sysfs_emit(val[t])) ]
    /\ Goto(t, "done")
    /\ UNCHANGED << lifecycle_vars, prepare_lock, lock, regs, call, val, hist >>

\* return ret ?: sysfs_emit(buf, "%llu\n", val)
ReadReturn(t) ==
    /\ pc[t] = "r_ret"
    /\ IF ret[t] # 0
       THEN UNCHANGED << ret, out >>
       ELSE /\ out' = [ out EXCEPT ![t] = sysfs_emit(val[t]) ]
            /\ ret' = [ ret EXCEPT ![t] = Len(sysfs_emit(val[t])) ]
    /\ Goto(t, "done")
    /\ UNCHANGED << lifecycle_vars, prepare_lock, lock, regs, call, val, hist >>

\* ---- adf4382_freq_change ------------------------------------------------

\* The clock's rate is being changed by some consumer: the clock framework,
\* holding its prepare lock, calls the notifier chain.
CallNotify(t) ==
    /\ nb_registered
    /\ prepare_lock = Free
    /\ prepare_lock' = t
    /\ \E a \in NotifyActions :
          Enter(t, [ NoCall EXCEPT !.op = "notify", !.action = a ], "n_entry")
    /\ UNCHANGED << lifecycle_vars, lock, regs >>

\* the test written as "anything but the pre-change proposal"
IsPostRateChange_notpre(action) == action # PRE_RATE_CHANGE

\* if (action == POST_RATE_CHANGE)
IsPostRateChange(action) == action = POST_RATE_CHANGE

\* the test of action; every other action returns NOTIFY_OK
NotifyEntry(t) ==
    /\ pc[t] = "n_entry"
    /\ IF IsPostRateChange(call[t].action)
       THEN Goto(t, "n_lock") /\ UNCHANGED ret
       ELSE /\ ret' = [ ret EXCEPT ![t] = NOTIFY_OK ]
            /\ Goto(t, "done")
    /\ UNCHANGED << lifecycle_vars, prepare_lock, lock, regs, call, val, out,
                    hist >>

\* mutex_lock(&st->lock)
NotifyLock(t) ==
    /\ pc[t] = "n_lock"
    /\ mutex_lock(t)
    /\ hist' = [ hist EXCEPT ![t].locked = TRUE ]
    /\ Goto(t, "n_init")
    /\ UNCHANGED << lifecycle_vars, prepare_lock, regs, call, ret, val, out >>

\* the callback returning the errno itself, without notifier_from_errno
NotifyInit_errno(t) ==
    /\ pc[t] = "n_init"
    /\ ret' = [ ret EXCEPT ![t] = adf4382_init ]
    /\ Programs(t, "init")
    /\ Goto(t, "n_unlock")
    /\ UNCHANGED << lifecycle_vars, prepare_lock, lock, regs, call, val, out >>

\* ret = notifier_from_errno(adf4382_init(st))
NotifyInit(t) ==
    /\ pc[t] = "n_init"
    /\ ret' = [ ret EXCEPT ![t] = notifier_from_errno(adf4382_init) ]
    /\ Programs(t, "init")
    /\ Goto(t, "n_unlock")
    /\ UNCHANGED << lifecycle_vars, prepare_lock, lock, regs, call, val, out >>

\* the callback returning without mutex_unlock
NotifyUnlock_missing(t) ==
    /\ pc[t] = "n_unlock"
    /\ Goto(t, "done")
    /\ UNCHANGED << lifecycle_vars, prepare_lock, lock, regs, call, ret, val,
                    out, hist >>

\* mutex_unlock(&st->lock); return ret
NotifyUnlock(t) ==
    /\ pc[t] = "n_unlock"
    /\ mutex_unlock(t)
    /\ Goto(t, "done")
    /\ UNCHANGED << lifecycle_vars, prepare_lock, regs, call, ret, val, out,
                    hist >>

\* ---- adf4382_reg_access -------------------------------------------------

\* debugfs direct_reg_access is read or written: iio core calls
\* adf4382_reg_access with or without a read destination
CallRegAccess(t) ==
    /\ published
    /\ \E r \in RegInputs, rd \in BOOLEAN, w \in RegVals :
          Enter(t, [ NoCall EXCEPT !.op = "reg_access", !.reg = r,
                                   !.read_val = rd,
                                   !.write_val = IF rd THEN 0 ELSE w ],
                "d_access")
    /\ UNCHANGED << lifecycle_vars, prepare_lock, lock, regs >>

\* a regmap configured without max_register: every address reaches the bus
RegAccess_unbounded(t) ==
    /\ pc[t] = "d_access"
    /\ IF call[t].read_val
       THEN /\ val' = [ val EXCEPT ![t] =
                          << IF call[t].reg \in DOMAIN regs
                             THEN regs[call[t].reg] ELSE 0, 0, 0, 0 >> ]
            /\ hist' = [ hist EXCEPT ![t].tx = "read", ![t].ntx = @ + 1 ]
            /\ UNCHANGED regs
       ELSE /\ regs' = [ regs EXCEPT ![call[t].reg] = call[t].write_val ]
            /\ hist' = [ hist EXCEPT ![t].tx = "write", ![t].ntx = @ + 1 ]
            /\ UNCHANGED val
    /\ ret' = [ ret EXCEPT ![t] = 0 ]
    /\ Goto(t, "done")
    /\ UNCHANGED << lifecycle_vars, prepare_lock, lock, call, out >>

\* regmap_read / regmap_write: one bus transaction when the address is not
\* above max_register, -EIO and none otherwise.   -- st->lock is not taken
RegAccess(t) ==
    /\ pc[t] = "d_access"
    /\ IF ~regmap_valid(call[t].reg)
       THEN /\ ret' = [ ret EXCEPT ![t] = -EIO ]
            /\ UNCHANGED << regs, val, hist >>
       ELSE IF call[t].read_val
       THEN /\ val' = [ val EXCEPT ![t] = << regs[call[t].reg], 0, 0, 0 >> ]
            /\ hist' = [ hist EXCEPT ![t].tx = "read", ![t].ntx = @ + 1 ]
            /\ ret' = [ ret EXCEPT ![t] = 0 ]
            /\ UNCHANGED regs
       ELSE /\ regs' = [ regs EXCEPT ![call[t].reg] = call[t].write_val ]
            /\ hist' = [ hist EXCEPT ![t].tx = "write", ![t].ntx = @ + 1 ]
            /\ ret' = [ ret EXCEPT ![t] = 0 ]
            /\ UNCHANGED val
    /\ Goto(t, "done")
    /\ UNCHANGED << lifecycle_vars, prepare_lock, lock, call, out >>

\* ---- return to the caller -----------------------------------------------

\* The handler has returned; the caller takes the result.  After a notifier
\* chain call the clock framework drops its prepare lock.
Finish(t) ==
    /\ pc[t] = "done"
    /\ prepare_lock' = IF call[t].op = "notify" THEN Free ELSE prepare_lock
    /\ pc' = [ pc EXCEPT ![t] = "idle" ]
    /\ call' = [ call EXCEPT ![t] = NoCall ]
    /\ ret' = [ ret EXCEPT ![t] = 0 ]
    /\ val' = [ val EXCEPT ![t] = U64Zero ]
    /\ out' = [ out EXCEPT ![t] = << >> ]
    /\ hist' = [ hist EXCEPT ![t] = NoHist ]
    /\ UNCHANGED << lifecycle_vars, lock, regs >>

(***************************************************************************)
(* Specification                                                           *)
(***************************************************************************)
Lifecycle ==
    \/ ProbeAlloc \/ ProbeRegmap \/ ProbeSetup \/ ProbeClkEnable
    \/ ProbeDevmClk \/ ProbeNotifierRegister \/ ProbeDevmNotifier
    \/ ProbeInit \/ ProbeIioRegister
    \/ ReleaseIioRegister \/ ReleaseNotifier \/ ReleaseClk
    \/ ReleaseRegmap \/ ReleaseIioDev \/ ReleaseDone

Handler(t) ==
    \/ CallWrite(t) \/ WriteLock(t) \/ WriteSwitch(t) \/ WriteSetFreq(t)
    \/ WriteUnlock(t)
    \/ CallRead(t) \/ ReadSwitch(t) \/ ReadGetFreq(t) \/ ReadReturn(t)
    \/ CallNotify(t) \/ NotifyEntry(t) \/ NotifyLock(t) \/ NotifyInit(t)
    \/ NotifyUnlock(t)
    \/ CallRegAccess(t) \/ RegAccess(t)
    \/ Finish(t)

Next == Lifecycle \/ \E t \in Threads : Handler(t)

Spec == Init /\ [][Next]_vars

(***************************************************************************)
(* Properties                                                              *)
(***************************************************************************)
\* Context t is inside adf4382_set_freq, called from adf4382_write.
InSetFreq(t) == pc[t] = "w_set"

\* Context t is inside adf4382_init, called from adf4382_freq_change.
InReinit(t) == pc[t] = "n_init"

\* Context t is inside adf4382_get_freq, called from adf4382_read.
InGetFreq(t) == pc[t] = "r_get"

\* Context t is about to issue the bus transaction of adf4382_reg_access.
IssuesTransaction(t) == pc[t] = "d_access" /\ regmap_valid(call[t].reg)

IssuesWrite(t) == IssuesTransaction(t) /\ ~call[t].read_val

\* Position of the first occurrence of a lifecycle event, 0 when absent.
Pos(e) ==
    IF \E i \in DOMAIN plog : plog[i] = e
    THEN CHOOSE i \in DOMAIN plog :
            plog[i] = e /\ \A j \in 1..(i - 1) : plog[j] # e
    ELSE 0

Happened(e) == Pos(e) # 0

\* Event a took effect, and before event b did (if b did at all).
Before(a, b) == Happened(b) => (Happened(a) /\ Pos(a) < Pos(b))

\* C1: set-frequency calls made by concurrent attribute writes, and the
\* re-initialization made by a POST_RATE_CHANGE notification, exclude each
\* other: no two contexts are inside such a section at once, and a context
\* inside one owns st->lock.
C1_MutualExclusion ==
    \A t \in Threads :
       (InSetFreq(t) \/ InReinit(t)) =>
          /\ lock = t
          /\ \A u \in Threads \ { t } : ~(InSetFreq(u) \/ InReinit(u))

\* C1 witness: one writer is inside adf4382_set_freq while a notification
\* for POST_RATE_CHANGE waits for the lock.
C1_Witness ==
    \E t, u \in Threads : InSetFreq(t) /\ pc[u] = "n_lock"

\* C2 (as claimed): adf4382_get_freq, reached from an attribute read, runs
\* under the reader's lock, so it never runs while another context is
\* inside a set-frequency or a re-initialization.
C2_GetFreqExcluded ==
    \A t \in Threads :
       InGetFreq(t) =>
          \A u \in Threads \ { t } : ~(InSetFreq(u) \/ InReinit(u))

\* C3 (as claimed): the adf4382_init of probe never runs at the same time
\* as the adf4382_init of a POST_RATE_CHANGE notification.
C3_ProbeInitSerialized ==
    ppc = "p_init" => \A t \in Threads : ~InReinit(t)

\* C4 (as claimed): a register write through adf4382_reg_access is issued
\* by a context that owns st->lock.
C4_WriteUnderLock ==
    \A t \in Threads : IssuesWrite(t) => lock = t

\* C5: a notification whose action is not POST_RATE_CHANGE never takes
\* st->lock, never calls adf4382_init, and returns NOTIFY_OK.
C5_OnlyPostRateChange ==
    \A t \in Threads :
       (call[t].op = "notify" /\ call[t].action # POST_RATE_CHANGE) =>
          /\ pc[t] \in { "n_entry", "done" }
          /\ ~hist[t].locked
          /\ lock # t
          /\ hist[t].called = "none"
          /\ (pc[t] = "done" => ret[t] = NOTIFY_OK)

\* C5 witness: a PRE_RATE_CHANGE notification has returned NOTIFY_OK while
\* another context owns the lock.
C5_Witness ==
    \E t \in Threads :
       /\ call[t].op = "notify" /\ call[t].action = PRE_RATE_CHANGE
       /\ pc[t] = "done" /\ ret[t] = NOTIFY_OK
       /\ lock # Free

\* C6 (as claimed): during attach the clock is enabled, then the regmap is
\* built, then adf4382_init runs, then the notifier is registered, then the
\* IIO device is registered.
C6_AttachOrder ==
    /\ Before("clk_enable", "regmap_init")
    /\ Before("regmap_init", "init")
    /\ Before("init", "nb_register")
    /\ Before("nb_register", "iio_register")

\* C7: once a failed attach has been unwound, the notifier is not
\* registered, the clock is not enabled and the IIO device is not
\* registered.
C7_FailedAttachClean ==
    ppc = "failed" =>
       /\ pret # 0
       /\ ~nb_registered
       /\ ~clk_enabled
       /\ ~published
       /\ devres = << >>

\* C7 witness: clk_notifier_register failed after the clock was enabled and
\* its release action recorded; the unwind has finished.
C7_Witness ==
    /\ ppc = "failed"
    /\ pret = -EINVAL
    /\ Happened("clk_enable")
    /\ ~Happened("nb_register")
    /\ Happened("clk_disable")

\* C8: the notifier is registered only while the clock is enabled; on
\* every teardown it is unregistered before the clock is disabled.
C8_SubscriptionWithinClock ==
    /\ nb_registered => clk_enabled
    /\ Before("clk_enable", "nb_register")
    /\ (Happened("nb_register") /\ Happened("clk_disable")) =>
          (Happened("nb_unregister") /\ Pos("nb_unregister") < Pos("clk_disable"))

\* C8 witness: the detach of a bound device has unregistered the notifier
\* and the clock is still enabled.
C8_Witness ==
    /\ ppc = "removing"
    /\ Happened("nb_unregister")
    /\ ~nb_registered
    /\ clk_enabled

\* C9: whenever a context is at a point where the driver reaches the
\* device (the bus transaction of adf4382_reg_access, adf4382_set_freq,
\* adf4382_get_freq, adf4382_init), or has issued a transaction in a call
\* that has not returned yet, the reference clock is enabled.
C9_ClockOnForRegisters ==
    /\ \A t \in Threads :
          ( \/ pc[t] = "d_access"
            \/ InSetFreq(t) \/ InGetFreq(t) \/ InReinit(t)
            \/ hist[t].tx # "none" ) => clk_enabled
    /\ ppc = "p_init" => clk_enabled

\* C9 witness: a debugfs access has issued a bus transaction.
C9_Witness ==
    \E t \in Threads : hist[t].tx = "write" /\ pc[t] = "done" /\ ret[t] = 0

\* The decimal digits of 2^64 - 1.
U64MaxDigits ==
    << "1", "8", "4", "4", "6", "7", "4", "4", "0", "7",
       "3", "7", "0", "9", "5", "5", "1", "6", "1", "5" >>

\* Digit sequence a is at most digit sequence b of the same length.
RECURSIVE DigitsLeq(_, _)
DigitsLeq(a, b) ==
    IF a = << >> THEN TRUE
    ELSE IF DigitVal(Head(a)) # DigitVal(Head(b))
         THEN DigitVal(Head(a)) < DigitVal(Head(b))
         ELSE DigitsLeq(Tail(a), Tail(b))

RECURSIVE StripZeros(_)
StripZeros(d) ==
    IF Len(d) > 1 /\ Head(d) = "0" THEN StripZeros(Tail(d)) ELSE d

\* The text is an unsigned 64-bit decimal integer as a sysfs write carries
\* one: one or more decimal digits whose value is at most 2^64 - 1, after
\* an optional '+' and before an optional single newline.
ValidU64Text(s) ==
    \E i \in 1..2, j \in 0..1 :
       LET d == SubSeq(s, i, Len(s) - j)
       IN  /\ Len(s) - j >= i
           /\ i = 2 => s[1] = "+"
           /\ j = 1 => s[Len(s)] = "\n"
           /\ \A k \in DOMAIN d : IsDigit(d[k])
           /\ \/ Len(StripZeros(d)) < Len(U64MaxDigits)
              \/ /\ Len(StripZeros(d)) = Len(U64MaxDigits)
                 /\ DigitsLeq(StripZeros(d), U64MaxDigits)

\* C10: an attribute write of "frequency" whose text is not an unsigned
\* 64-bit decimal integer never reaches adf4382_set_freq, issues no
\* register transaction, and returns the parse error.
C10_MalformedWriteRejected ==
    \A t \in Threads :
       ( /\ call[t].op = "write"
         /\ call[t].private = ADF4382_FREQ
         /\ ~ValidU64Text(call[t].buf) ) =>
          /\ ~InSetFreq(t)
          /\ hist[t].called = "none"
          /\ hist[t].tx = "none"
          /\ (pc[t] \in { "w_unlock", "done" } => ret[t] \in { -EINVAL, -ERANGE })

\* C10 witness: the write of "abc" has returned -EINVAL, and the write of
\* 2^64 has returned -ERANGE.
C10_Witness ==
    \E t, u \in Threads :
       /\ call[t].op = "write" /\ call[t].buf = << "a", "b", "c" >>
       /\ pc[t] = "done" /\ ret[t] = -EINVAL
       /\ call[u].op = "write" /\ ~ValidU64Text(call[u].buf)
       /\ Len(call[u].buf) = 20
       /\ pc[u] = "done" /\ ret[u] = -ERANGE

\* The decimal digits of a valid text: without the '+' and the newline.
DigitsOf(s) ==
    LET i == IF Len(s) >= 1 /\ s[1] = "+" THEN 2 ELSE 1
        j == IF Len(s) >= 1 /\ s[Len(s)] = "\n" THEN 1 ELSE 0
    IN  SubSeq(s, i, Len(s) - j)

\* The decimal text of the value a valid text denotes, and a newline.
DecimalLine(s) == Append(StripZeros(DigitsOf(s)), "\n")

\* C11 (as claimed): a read of "frequency" entered after a write of f has
\* returned successfully, with no set-frequency and no re-initialization in
\* between, returns the decimal text of f followed by a newline.
C11_ReadAfterWrite ==
    \A t \in Threads :
       ( /\ call[t].op = "read" /\ pc[t] = "done"
         /\ hist[t].after # << >> ) =>
          /\ out[t] = DecimalLine(hist[t].after)
          /\ ret[t] = Len(out[t])

\* C13: a POST_RATE_CHANGE notification returns notifier_from_errno of the
\* result of adf4382_init: NOTIFY_OK when it succeeded, a value with the
\* stop bit set when it failed; it has taken st->lock, called adf4382_init
\* and released the lock when it returns.
C13_NotifierResult ==
    \A t \in Threads :
       ( /\ call[t].op = "notify" /\ call[t].action = POST_RATE_CHANGE
         /\ pc[t] = "done" ) =>
          /\ hist[t].locked
          /\ hist[t].called = "init"
          /\ lock # t
          /\ adf4382_init = 0 => ret[t] = NOTIFY_OK
          /\ adf4382_init # 0 =>
                /\ ret[t] # NOTIFY_OK
                /\ ret[t] = NOTIFY_STOP_MASK + NOTIFY_OK - adf4382_init

\* C13 witness: a POST_RATE_CHANGE notification that had to take the lock
\* has returned NOTIFY_OK and no longer owns it.
C13_Witness ==
    \E t \in Threads :
       /\ call[t].op = "notify" /\ call[t].action = POST_RATE_CHANGE
       /\ pc[t] = "done" /\ ret[t] = NOTIFY_OK
       /\ hist[t].locked /\ lock # t

\* C14: a debugfs register access above max_register returns an error and
\* issues no bus transaction; one at or below it succeeds with exactly one
\* transaction, a read when a read destination was given, a write if not.
C14_RegAccessBounds ==
    \A t \in Threads :
       call[t].op = "reg_access" =>
          /\ pc[t] = "d_access" => (hist[t].ntx = 0 /\ hist[t].tx = "none")
          /\ pc[t] = "done" =>
                IF call[t].reg > MaxRegister
                THEN ret[t] = -EIO /\ hist[t].ntx = 0 /\ hist[t].tx = "none"
                ELSE /\ ret[t] = 0
                     /\ hist[t].ntx = 1
                     /\ hist[t].tx = IF call[t].read_val THEN "read" ELSE "write"

\* C14 witness: one access at 0x55 has failed without a transaction and one
\* read at 0x54 has been served.
C14_Witness ==
    \E t, u \in Threads :
       /\ call[t].op = "reg_access" /\ call[t].reg = MaxRegister + 1
       /\ pc[t] = "done" /\ ret[t] = -EIO /\ hist[t].ntx = 0
       /\ call[u].op = "reg_access" /\ call[u].reg = MaxRegister
       /\ call[u].read_val /\ pc[u] = "done" /\ hist[u].tx = "read"

\* A text that is decimal digits followed by one newline.
IsDecimalLine(s) ==
    /\ Len(s) >= 2
    /\ s[Len(s)] = "\n"
    /\ \A i \in 1..(Len(s) - 1) : IsDigit(s[i])

\* C15: an attribute read that ends with an error emits no text; text is
\* emitted only by a read whose adf4382_get_freq returned 0, and then it is
\* the value as decimal digits with a trailing newline, its length being
\* the return value.
C15_ReadErrorOrText ==
    \A t \in Threads :
       call[t].op = "read" =>
          /\ (pc[t] = "done" /\ ret[t] < 0) => out[t] = << >>
          /\ out[t] # << >> =>
                /\ pc[t] = "done"
                /\ hist[t].called = "get_freq"
                /\ IsDecimalLine(out[t])
                /\ kstrtoull(out[t], 10) = [ ret |-> 0, res |-> val[t] ]
                /\ ret[t] = Len(out[t])
          /\ (pc[t] = "done" /\ ret[t] >= 0) => out[t] # << >>

\* C15 witness: one read has returned -EINVAL with nothing emitted, another
\* has returned the length of the text it emitted.
C15_Witness ==
    \E t, u \in Threads :
       /\ call[t].op = "read" /\ pc[t] = "done"
       /\ ret[t] = -EINVAL /\ out[t] = << >>
       /\ call[u].op = "read" /\ pc[u] = "done"
       /\ hist[u].called = "get_freq" /\ ret[u] = Len(out[u]) /\ out[u] # << >>

\* C16: no handler returns owning st->lock, st->lock is owned only by a
\* handler between its mutex_lock and its mutex_unlock, and a handler that
\* is about to call mutex_unlock owns it.
C16_LockReleasedOnReturn ==
    \A t \in Threads :
       /\ pc[t] \in { "idle", "done" } => lock # t
       /\ pc[t] \in { "w_unlock", "n_unlock" } => lock = t
       /\ lock = t => pc[t] \in { "w_switch", "w_set", "w_unlock",
                                  "n_init", "n_unlock" }
       /\ (pc[t] = "done" /\ call[t].op = "write") => hist[t].locked

\* C16 witness: a write under an unknown identifier and a write whose text
\* does not parse have both returned their error, having held the lock.
C16_Witness ==
    \E t, u \in Threads :
       /\ call[t].op = "write" /\ call[t].private = UnknownIdent
       /\ pc[t] = "done" /\ ret[t] = -EINVAL /\ hist[t].locked
       /\ call[u].op = "write" /\ call[u].private = ADF4382_FREQ
       /\ pc[u] = "done" /\ ret[u] = -ERANGE /\ hist[u].locked
       /\ lock = Free

\* C17: the notifier is registered, and its callback runs, only while
\* struct adf4382_state is allocated with its mutex initialised: it is
\* registered after mutex_init and unregistered before the state is freed.
C17_ReactorWithinState ==
    /\ nb_registered => (st_alive /\ Happened("mutex_init"))
    /\ \A t \in Threads :
          call[t].op = "notify" =>
             (st_alive /\ nb_registered /\ ~Happened("free"))
    /\ Before("mutex_init", "nb_register")
    /\ (Happened("nb_register") /\ Happened("free")) =>
          (Happened("nb_unregister") /\ Pos("nb_unregister") < Pos("free"))

\* C17 witness: a notification is inside adf4382_init while the device is
\* being removed.
C17_Witness ==
    \E t \in Threads :
       /\ call[t].op = "notify" /\ pc[t] = "n_init"
       /\ ppc = "removing"

\* Number of times a lifecycle event took effect.
Count(e) == Cardinality({ i \in DOMAIN plog : plog[i] = e })

\* C18: the clock is disabled at most once and only after it was enabled,
\* the notifier is unregistered at most once and only after it was
\* registered, and when attach has failed or the device is detached each
\* was undone exactly as often as it was done.
C18_BalancedRelease ==
    /\ Count("clk_enable") <= 1
    /\ Count("nb_register") <= 1
    /\ Count("clk_disable") <= Count("clk_enable")
    /\ Count("nb_unregister") <= Count("nb_register")
    /\ Before("clk_enable", "clk_disable")
    /\ Before("nb_register", "nb_unregister")
    /\ clk_enabled <=> Count("clk_enable") > Count("clk_disable")
    /\ nb_registered <=> Count("nb_register") > Count("nb_unregister")
    /\ ppc \in { "failed", "detached" } =>
          /\ Count("clk_disable") = Count("clk_enable")
          /\ Count("nb_unregister") = Count("nb_register")

\* C18 witness: recording the unregister action failed, so it was run at
\* once; the unwind then disabled the clock; each happened once.
C18_Witness ==
    /\ ppc = "failed"
    /\ pret = -ENOMEM
    /\ Happened("nb_register") /\ ~Happened("init")
    /\ Count("nb_unregister") = 1
    /\ Count("clk_disable") = 1

(***************************************************************************)
(* Fair scheduling: a context that can take the next step of its handler   *)
(* eventually takes it, and a context waiting in mutex_lock gets the mutex *)
(* if it is free again and again (the kernel mutex hands over to waiters). *)
(* Entering a handler, and unbinding the device, are left to the           *)
(* environment.                                                            *)
(***************************************************************************)
Step(t) ==
    \/ WriteSwitch(t) \/ WriteSetFreq(t) \/ WriteUnlock(t)
    \/ ReadSwitch(t) \/ ReadGetFreq(t) \/ ReadReturn(t)
    \/ NotifyEntry(t) \/ NotifyInit(t) \/ NotifyUnlock(t)
    \/ RegAccess(t)
    \/ Finish(t)

Acquire(t) == WriteLock(t) \/ NotifyLock(t)

FairSpec ==
    /\ Spec
    /\ \A t \in Threads : WF_vars(Step(t)) /\ SF_vars(Acquire(t))

Running(t) == pc[t] \notin { "idle", "done" }

\* C19: under fair scheduling every handler that was entered returns, and
\* as long as one is running some context can take a step.
C19_EveryCallReturns ==
    /\ [](( \E t \in Threads : Running(t) ) =>
            \E u \in Threads : ENABLED (Step(u) \/ Acquire(u)))
    /\ \A t \in Threads : Running(t) ~> (pc[t] = "done")

\* C19 witness: a writer waits in mutex_lock while a notification owns the
\* lock inside adf4382_init.
C19_Witness ==
    \E t, u \in Threads :
       /\ pc[t] = "w_lock"
       /\ lock = u /\ pc[u] = "n_init"

====
